---- MODULE Spec2Model ----
(***************************************************************************)
(* SolarEdge Data Downloader (SE_API2.py): a Streamlit script.  Every user *)
(* interaction reruns the script top to bottom; the script shows the login *)
(* form or the main application depending on st.session_state.             *)
(*                                                                         *)
(* Strings are TLA+ strings.  str.lower() and str.replace() work on the    *)
(* characters of a string, so every string they are applied to is drawn    *)
(* from a universe of character sequences (Words) and converted with Join. *)
(* JSON objects are functions from key strings, JSON arrays are sequences. *)
(***************************************************************************)
EXTENDS Integers, Sequences, FiniteSets, TLC

\* ------------------------------------------------------------------ bounds
\* longest usernames / passwords list in the secrets
MaxCreds == 2
\* longest user name, in characters
MaxName == 1
\* longest key of details.uris, in characters
MaxWord == 1
\* most keys of details.uris
MaxUris == 2
\* longest outer JSON array of a response (values, gateways, meters, sites)
MaxLen == 2
\* longest inner JSON array of a response (sensors, telemetries, meter values)
MaxInner == 1
\* most fragments in the body of an error response
MaxText == 2

\* ----------------------------------------------------------------- strings
Range(s) == {s[i] : i \in DOMAIN s}

SeqsUpTo(S, n) == UNION {[1..k -> S] : k \in 0..n}

RECURSIVE Join(_)
Join(w) == IF w = <<>> THEN "" ELSE Head(w) \o Join(Tail(w))

\* characters typed into the Username box / used in the secrets
NameAlphabet == {"a", "A"}
\* characters of the keys of details.uris
UriAlphabet == {"a", "A", " ", "_"}

NameWords == SeqsUpTo(NameAlphabet, MaxName)
UriWords == SeqsUpTo(UriAlphabet, MaxWord) \ {<<>>}

\* fragments of an error body (the text of a 4xx/5xx response)
BodyWords ==
    { <<"D","a","t","e"," ","r","a","n","g","e">>,
      <<"d","a","t","e"," ","r","a","n","g","e">>,
      <<"M","A","X","I","M","U","M">>,
      <<"m","a","x","i","m","u","m">>,
      <<"F","o","r","b","i","d","d","e","n">> }

Words == NameWords \cup UriWords \cup BodyWords

\* the characters of a string
Chars(s) == CHOOSE w \in Words : Join(w) = s

LowerChar(c) ==
    CASE c = "A" -> "a" [] c = "D" -> "d" [] c = "F" -> "f" [] c = "I" -> "i"
      [] c = "M" -> "m" [] c = "U" -> "u" [] c = "X" -> "x" [] OTHER -> c

\* str.lower()
Lower(s) == LET w == Chars(s) IN Join([i \in DOMAIN w |-> LowerChar(w[i])])

\* str.replace(' ', '_')
ReplaceSpace(s) ==
    LET w == Chars(s) IN Join([i \in DOMAIN w |-> IF w[i] = " " THEN "_" ELSE w[i]])

\* ------------------------------------------------------------- dictionaries
EmptyDict == [k \in {} |-> ""]

\* dict.pop(key) seen from the dictionary: the dictionary without the key
Pop(d, key) == [k \in DOMAIN d \ {key} |-> d[k]]

\* dict.update(other): the keys of other win
Update(d, other) ==
    [k \in DOMAIN d \cup DOMAIN other |-> IF k \in DOMAIN other THEN other[k] ELSE d[k]]

\* list.index(x): the first position of x (ValueError when absent: 0 here)
Index(list, x) ==
    IF x \in Range(list) THEN CHOOSE i \in DOMAIN list :
                                 list[i] = x /\ \A j \in 1..(i - 1) : list[j] # x
    ELSE 0

\* --------------------------------------------------------------- messages
InvalidLoginMsg == "Invalid username or password"
ApiKeyMissingMsg == "API key not found in secrets. Please have the administrator configure it."
DateRangeMsg == "The date range you selected is too long for the requested Time Unit. Please select a shorter period and try again."
ApiErrorMsg(status_code) ==
    "An API error occurred (Code: " \o ToString(status_code)
        \o "). Please check your parameters and try again."
NoConnectionMsg == "Could not connect to the SolarEdge server. Please check your network connection and try again."
InvalidSiteMsg == "Invalid site selected."
FilesReadyMsg == "Your files are ready to download below!"
NoDataMsg == "The request was successful, but no data was found"

\* an element of the page or of the outside world produced by a script run
Event(kind, text) == [kind |-> kind, text |-> text]

\* ------------------------------------------------------------------- state
VARIABLES
    usernames,       \* st.secrets["credentials"]["usernames"]
    passwords,       \* st.secrets["credentials"]["passwords"]
    api_key,         \* st.secrets["solaredge"]["api_key"] ("" when missing)
    authenticated,   \* st.session_state["authenticated"]
    sites_cache,     \* the memo of st.cache_data for get_all_sites
    selected_site_name,  \* the value of the "Select a Site:" selectbox
    selected_endpoint,   \* the value of the "Select the API Endpoint:" selectbox
    page,            \* what the last script run rendered: "login" or "app"
    events,          \* the last script run in order: GETs sent, log lines, messages
    last_reply,      \* the reply of the vendor API to the last GET
    submitted,       \* the last login submission and what check_login made of it
    api_data,        \* run_app's api_data at the end of the last Generate
    processed_data,  \* run_app's processed_data at the end of the last Generate
    fieldnames,      \* run_app's fieldnames at the end of the last Generate
    downloads        \* the download buttons of the page

vars == <<usernames, passwords, api_key, authenticated, sites_cache,
          selected_site_name, selected_endpoint, page, events, last_reply,
          submitted, api_data, processed_data, fieldnames, downloads>>

secrets == <<usernames, passwords, api_key>>

\* ------------------------------------------------------------ Python values
\* the values found in a response: strings (numbers are written as strings),
\* nested objects, and None (JSON null, or dict.get of a missing key)
Scalar(v) == [type |-> "str", val |-> v, items |-> <<>>]
Dict(items) == [type |-> "dict", val |-> "", items |-> items]
PyNone == [type |-> "NoneType", val |-> "", items |-> <<>>]
\* isinstance(x, dict)
IsDict(x) == x.type = "dict"
\* None where a site id is expected
NoneId == -1
\* the selectbox value when it has no options
NoneName == "<no option>"

\* api_data: None or a parsed JSON object
None == [none |-> TRUE, json |-> EmptyDict]
Some(json) == [none |-> FALSE, json |-> json]
\* truth value of api_data: None and {} are false
Truthy(data) == ~data.none /\ DOMAIN data.json # {}

\* dict.get(key, default)
Get(d, key, default) == IF key \in DOMAIN d THEN d[key] ELSE default

\* -------------------------------------------------------------- vendor API
\* What requests.get meets: no response at all, or a response with a status
\* code, a body text (a sequence of fragments) and a body that parses as a
\* JSON object or does not parse.
NoResponse == [received |-> FALSE, status_code |-> 0, text |-> <<>>,
               json_ok |-> FALSE, json |-> EmptyDict]
HttpReply(status_code, text) ==
    [received |-> TRUE, status_code |-> status_code, text |-> text,
     json_ok |-> FALSE, json |-> EmptyDict]
JsonReply(json) ==
    [received |-> TRUE, status_code |-> 200, text |-> <<>>, json_ok |-> TRUE, json |-> json]
NotJsonReply(status_code) ==
    [received |-> TRUE, status_code |-> status_code, text |-> <<>>,
     json_ok |-> FALSE, json |-> EmptyDict]

\* response.raise_for_status(): HTTPError for 4xx and 5xx
RaisesForStatus(reply) == reply.status_code >= 400 /\ reply.status_code < 600

\* "needle in e.response.text.lower()"
InLowerText(needle, text) == \E i \in DOMAIN text : Lower(text[i]) = needle

\* the user-facing message of the except branch; e_response is e.response
ErrorMessage(reply) ==
    IF reply.received /\ RaisesForStatus(reply)
    THEN IF /\ reply.status_code = 403
            /\ InLowerText("date range", reply.text)
            /\ InLowerText("maximum", reply.text)
         THEN DateRangeMsg
         ELSE ApiErrorMsg(reply.status_code)
    ELSE NoConnectionMsg

\* (mutant) a failed GET is sent a second time before giving up
make_api_callRetry(endpoint, reply) ==
    IF api_key = ""
    THEN [data |-> None, events |-> <<Event("error", ApiKeyMissingMsg)>>, sent |-> FALSE]
    ELSE IF reply.received /\ ~RaisesForStatus(reply) /\ reply.json_ok
    THEN [data |-> Some(reply.json), events |-> <<Event("get", endpoint)>>, sent |-> TRUE]
    ELSE [data |-> None,
          events |-> <<Event("get", endpoint), Event("get", endpoint),
                       Event("log", endpoint), Event("error", ErrorMessage(reply))>>,
          sent |-> TRUE]

\* make_api_call(endpoint, params): the data returned and what the call did
make_api_call(endpoint, reply) ==
    IF api_key = ""
    THEN [data |-> None, events |-> <<Event("error", ApiKeyMissingMsg)>>, sent |-> FALSE]
    ELSE IF reply.received /\ ~RaisesForStatus(reply) /\ reply.json_ok
    THEN [data |-> Some(reply.json), events |-> <<Event("get", endpoint)>>, sent |-> TRUE]
    ELSE [data |-> None,
          events |-> <<Event("get", endpoint), Event("log", endpoint),
                       Event("error", ErrorMessage(reply))>>,
          sent |-> TRUE]

\* ------------------------------------------------------------ get_all_sites
\* site names in the order sorted() gives them
SiteNameOrder == <<"Alpha", "Beta">>
NameRank(name) == CHOOSE i \in DOMAIN SiteNameOrder : SiteNameOrder[i] = name

RECURSIVE Insert(_, _)
\* insert site after the elements whose name is not larger (a stable sort)
Insert(sorted, site) ==
    IF sorted = <<>> THEN <<site>>
    ELSE IF NameRank(Head(sorted).name) <= NameRank(site.name)
         THEN <<Head(sorted)>> \o Insert(Tail(sorted), site)
         ELSE <<site>> \o sorted

RECURSIVE SortedByName(_)
SortedByName(site_list) ==
    IF site_list = <<>> THEN <<>>
    ELSE Insert(SortedByName(SubSeq(site_list, 1, Len(site_list) - 1)),
                site_list[Len(site_list)])

\* {site['name']: site['id'] for site in sites}: a later site replaces an
\* earlier one of the same name
SiteDict(sites) ==
    [name \in {sites[i].name : i \in DOMAIN sites} |->
        LET last == CHOOSE i \in DOMAIN sites :
                        /\ sites[i].name = name
                        /\ \A j \in DOMAIN sites : sites[j].name = name => j <= i
        IN sites[last].id]

NoSitesFound == [name \in {"No sites found"} |-> NoneId]

NotCached == [cached |-> FALSE, value |-> EmptyDict]
Cached(value) == [cached |-> TRUE, value |-> value]

\* the body of get_all_sites
SitesFromData(data) ==
    IF Truthy(data) /\ "sites" \in DOMAIN data.json /\ "site" \in DOMAIN data.json["sites"]
    THEN SiteDict(SortedByName(data.json["sites"]["site"]))
    ELSE NoSitesFound

\* the result of the body of get_all_sites, given what make_api_call did
SitesFromCall(call) ==
    [value |-> SitesFromData(call.data), events |-> call.events, sent |-> call.sent]

\* (mutant) the placeholder of a failed lookup is not memoized
get_all_sitesRetrying(reply) ==
    IF sites_cache.cached /\ sites_cache.value # NoSitesFound
    THEN [value |-> sites_cache.value, events |-> <<>>, sent |-> FALSE]
    ELSE SitesFromCall(make_api_call("sites/list", reply))

\* get_all_sites() under st.cache_data: the body runs only when nothing is memoized
get_all_sites(reply) ==
    IF sites_cache.cached
    THEN [value |-> sites_cache.value, events |-> <<>>, sent |-> FALSE]
    ELSE SitesFromCall(make_api_call("sites/list", reply))

\* list(all_sites_dict.keys()): the names in insertion order
RECURSIVE KeysInOrder(_, _)
KeysInOrder(d, i) ==
    IF i > Len(SiteNameOrder) THEN IF "No sites found" \in DOMAIN d THEN <<"No sites found">> ELSE <<>>
    ELSE (IF SiteNameOrder[i] \in DOMAIN d THEN <<SiteNameOrder[i]>> ELSE <<>>)
             \o KeysInOrder(d, i + 1)

\* st.selectbox: the chosen option, or the first one when the choice is no option
Selectbox(options, choice) ==
    IF choice \in Range(options) THEN choice
    ELSE IF options = <<>> THEN NoneName ELSE options[1]

\* -------------------------------------------------------------- check_login
\* (mutant) the except clause catches ValueError only: an index beyond the
\* passwords list is not a failure
LoginOutcomeNoIndexError(typed_username, password) ==
    LET username == Lower(typed_username)
        user_index == Index(usernames, username)
    IN IF user_index = 0 THEN "ValueError"
       ELSE IF user_index > Len(passwords) THEN "authenticated"
       ELSE IF passwords[user_index] = password THEN "authenticated"
       ELSE "mismatch"

\* what the submit branch of check_login finds
LoginOutcome(typed_username, password) ==
    LET username == Lower(typed_username)
        user_index == Index(usernames, username)
    IN IF user_index = 0 THEN "ValueError"
       ELSE IF user_index > Len(passwords) THEN "IndexError"
       ELSE IF passwords[user_index] = password THEN "authenticated"
       ELSE "mismatch"


\* --------------------------------------------------------------- flattening
RECURSIVE SetToSeq(_)
SetToSeq(S) ==
    IF S = {} THEN <<>>
    ELSE LET x == CHOOSE x \in S : TRUE IN <<x>> \o SetToSeq(S \ {x})

\* sorted(keys): strings are ordered by one fixed total order
Sorted(S) == SetToSeq(S)

Reverse(s) == [i \in DOMAIN s |-> s[Len(s) + 1 - i]]

\* the keys of a dictionary in iteration order: one fixed order for each key
\* set, in general not the sorted one
Keys(d) == Reverse(SetToSeq(DOMAIN d))

RECURSIVE Concat(_)
\* the concatenation of a sequence of sequences (nested for loops appending)
Concat(seqs) == IF seqs = <<>> THEN <<>> ELSE Head(seqs) \o Concat(Tail(seqs))

LocationKey(k) == "location_" \o k
PublicKey(k) == "public_" \o k
\* (mutant) the key is not lowercased
UriKeyNoLower(k) == "uri_" \o ReplaceSpace(k)

UriKey(k) == "uri_" \o ReplaceSpace(Lower(k))

\* the key a member k of the sub-object details[key] gets
NewKey(key, k) ==
    CASE key = "location" -> LocationKey(k)
      [] key = "publicSettings" -> PublicKey(k)
      [] key = "uris" -> UriKey(k)

\* {NewKey(k): v for k, v in d.items()}: a later item replaces an earlier one
\* that gets the same new key
Rekey(key, d) ==
    LET order == Keys(d)
    IN [x \in {NewKey(key, k) : k \in DOMAIN d} |->
           LET last == CHOOSE i \in DOMAIN order :
                           /\ NewKey(key, order[i]) = x
                           /\ \A j \in DOMAIN order : NewKey(key, order[j]) = x => j <= i
           IN d[order[last]]]

\* if key in details and isinstance(details[key], dict):
\*     sub = details.pop(key); details.update({NewKey(k): v for k, v in sub.items()})
Spread(details, key) ==
    IF key \in DOMAIN details /\ IsDict(details[key])
    THEN Update(Pop(details, key), Rekey(key, details[key].items))
    ELSE details

\* the details object after the three pop/update steps
FlatDetails(details) ==
    Spread(Spread(Spread(details, "location"), "publicSettings"), "uris")

Flattened(data, rows, fields) ==
    [api_data |-> data, processed_data |-> rows, fieldnames |-> fields]

\* "Site Details": api_data['details'] is flattened in place
\* api_data['details'] is the flattened object, which is the one row
DetailsRow(data, details) ==
    Flattened(Some([data.json EXCEPT !["details"] = details]),
              <<details>>, Sorted(DOMAIN details))

FlattenSiteDetails(data) ==
    IF Truthy(data) /\ "details" \in DOMAIN data.json
    THEN DetailsRow(data, FlatDetails(data.json["details"]))
    ELSE Flattened(data, <<>>, <<>>)

\* "Site Energy" / "Site Power"
\* base_info of a section of the response
BaseInfo(section) ==
    [timeUnit |-> Get(section, "timeUnit", PyNone), unit |-> Get(section, "unit", PyNone)]

\* (mutant) [v for v in values]: base_info is not merged in
MergedValuesNoBase(base_info, values) == values

\* [{**base_info, **v} for v in values]
MergedValues(base_info, values) == [i \in DOMAIN values |-> Update(base_info, values[i])]

EnergyPowerRows(data, section, values) ==
    IF Truthy(data) /\ values # <<>>
    THEN Flattened(data, MergedValues(BaseInfo(section), values),
                   <<"date", "value", "timeUnit", "unit">>)
    ELSE Flattened(data, <<>>, <<>>)

EnergyPowerSection(data, section) ==
    EnergyPowerRows(data, section, Get(section, "values", <<>>))

FlattenEnergyPower(endpoint_url, data) ==
    EnergyPowerSection(data, Get(data.json, endpoint_url, <<>>))

\* "Get Sensor List"
\* the data with its rows, and the field list when there are rows
WithFields(data, rows, fields) ==
    Flattened(data, rows, IF rows # <<>> THEN fields ELSE <<>>)

\* the rows of the sensors of one gateway
SensorRows(gateway_name, sensors) ==
    [s \in DOMAIN sensors |->
        [gateway |-> gateway_name,
         name |-> Get(sensors[s], "name", PyNone),
         measurement |-> Get(sensors[s], "measurement", PyNone),
         type |-> Get(sensors[s], "type", PyNone)]]

SensorListRows(data, list) ==
    IF Truthy(data) /\ list # <<>>
    THEN WithFields(data,
             Concat([g \in DOMAIN list |->
                 SensorRows(Get(list[g], "connectedTo", PyNone),
                            Get(list[g], "sensors", <<>>))]),
             <<"gateway", "name", "measurement", "type">>)
    ELSE Flattened(data, <<>>, <<>>)

FlattenSensorList(data) ==
    SensorListRows(data, Get(Get(data.json, "SiteSensors", <<>>), "list", <<>>))

\* the rows of one telemetry: telemetry.pop('date', None), then one row for
\* each item left
ItemRows(gateway_name, entry_date, telemetry, keys) ==
    [i \in DOMAIN keys |->
        [gateway |-> gateway_name, date |-> entry_date,
         measurement_type |-> Scalar(keys[i]), value |-> telemetry[keys[i]]]]

TelemetryRows(gateway_name, telemetry) ==
    ItemRows(gateway_name, Get(telemetry, "date", PyNone), telemetry,
             Keys(Pop(telemetry, "date")))

\* the rows of the telemetries of one gateway
GatewayRows(gateway_name, telemetries) ==
    Concat([t \in DOMAIN telemetries |-> TelemetryRows(gateway_name, telemetries[t])])

\* a gateway of siteSensors.data after the loop: the dates are popped
PoppedGateway(gateway) ==
    IF "telemetries" \in DOMAIN gateway
    THEN [gateway EXCEPT !["telemetries"] =
             [t \in DOMAIN gateway["telemetries"] |-> Pop(gateway["telemetries"][t], "date")]]
    ELSE gateway

\* "Get Sensor Data"
SensorDataRows(data, gateways) ==
    IF Truthy(data) /\ gateways # <<>>
    THEN WithFields(
             Some([data.json EXCEPT !["siteSensors"]["data"] =
                      [g \in DOMAIN gateways |-> PoppedGateway(gateways[g])]]),
             Concat([g \in DOMAIN gateways |->
                 GatewayRows(Get(gateways[g], "connectedTo", PyNone),
                             Get(gateways[g], "telemetries", <<>>))]),
             <<"gateway", "date", "measurement_type", "value">>)
    ELSE Flattened(data, <<>>, <<>>)

FlattenSensorData(data) ==
    SensorDataRows(data, Get(Get(data.json, "siteSensors", <<>>), "data", <<>>))

\* "Get Meters Data"
\* meter_info of a meter
MeterInfo(meter) ==
    [meterSerialNumber |-> Get(meter, "meterSerialNumber", PyNone),
     model |-> Get(meter, "model", PyNone),
     meterType |-> Get(meter, "meterType", PyNone)]

\* {**base_info, **meter_info, **value_entry} for each value of one meter
MeterRows(base_info, meter) ==
    MergedValues(Update(base_info, MeterInfo(meter)), Get(meter, "values", <<>>))

MetersDataRows(data, section, meters) ==
    IF Truthy(data) /\ meters # <<>>
    THEN WithFields(data,
             Concat([m \in DOMAIN meters |-> MeterRows(BaseInfo(section), meters[m])]),
             <<"date", "value", "meterSerialNumber", "model", "meterType",
               "timeUnit", "unit">>)
    ELSE Flattened(data, <<>>, <<>>)

MetersDataSection(data, section) ==
    MetersDataRows(data, section, Get(section, "meters", <<>>))

FlattenMetersData(data) ==
    MetersDataSection(data, Get(data.json, "meterEnergyDetails", <<>>))

Endpoints == {"Site Details", "Site Energy", "Site Power", "Get Sensor List",
              "Get Sensor Data", "Get Meters Data"}

\* the if / elif chain on selected_endpoint, after the call returned data
Flatten(endpoint, data) ==
    CASE endpoint = "Site Details" -> FlattenSiteDetails(data)
      [] endpoint = "Site Energy" -> FlattenEnergyPower("energy", data)
      [] endpoint = "Site Power" -> FlattenEnergyPower("power", data)
      [] endpoint = "Get Sensor List" -> FlattenSensorList(data)
      [] endpoint = "Get Sensor Data" -> FlattenSensorData(data)
      [] endpoint = "Get Meters Data" -> FlattenMetersData(data)

\* the path given to make_api_call for an endpoint
EndpointPath(endpoint, site_id) ==
    LET id == ToString(site_id)
    IN CASE endpoint = "Site Details" -> "site/" \o id \o "/details"
         [] endpoint = "Site Energy" -> "site/" \o id \o "/energy"
         [] endpoint = "Site Power" -> "site/" \o id \o "/power"
         [] endpoint = "Get Sensor List" -> "equipment/" \o id \o "/sensors"
         [] endpoint = "Get Sensor Data" -> "site/" \o id \o "/sensors"
         [] endpoint = "Get Meters Data" -> "site/" \o id \o "/meters"

\* str(value) as csv.DictWriter writes a cell; None is written as ''
CsvCell(v) ==
    CASE v.type = "NoneType" -> "" [] v.type = "str" -> v.val [] v.type = "dict" -> "{..}"

\* create_csv_string: the header, then one record for each row; a missing key
\* gives an empty cell, a key outside fieldnames is ignored
create_csv_string(data, fields) ==
    <<fields>> \o
    [r \in DOMAIN data |->
        [c \in DOMAIN fields |->
            IF fields[c] \in DOMAIN data[r] THEN CsvCell(data[r][fields[c]]) ELSE ""]]

NoDownloads == [offered |-> FALSE, raw_json |-> <<>>, csv |-> <<>>]

\* the body of the Generate button after the site check: the call, the
\* flattening and the download / warning branch
\* (mutant) `if api_data`: the rows are not looked at
FilesReadyAnyRows(data, rows) == Truthy(data)

\* `if api_data and processed_data`
FilesReady(data, rows) == Truthy(data) /\ rows # <<>>

\* the download / warning branch: json.dumps(api_data) and the CSV text are
\* offered, or the warning is shown, or nothing
Offer(call, flat, ready) ==
    [api_data |-> flat.api_data,
     processed_data |-> flat.processed_data,
     fieldnames |-> flat.fieldnames,
     sent |-> call.sent,
     events |-> call.events \o
         (IF ready THEN <<Event("success", FilesReadyMsg)>>
          ELSE IF flat.api_data.none THEN <<>>
          ELSE <<Event("warning", NoDataMsg)>>),
     downloads |->
         IF ready
         THEN [offered |-> TRUE, raw_json |-> flat.api_data.json,
               csv |-> create_csv_string(flat.processed_data, flat.fieldnames)]
         ELSE NoDownloads]

Package(call, flat) == Offer(call, flat, FilesReady(flat.api_data, flat.processed_data))

FlattenCall(endpoint, call) == Package(call, Flatten(endpoint, call.data))

\* the body of the Generate button after the site check: the call, the
\* flattening and the download / warning branch
GenerateFiles(endpoint, site_id, reply) ==
    FlattenCall(endpoint, make_api_call(EndpointPath(endpoint, site_id), reply))

\* --------------------------------------------------------------- script runs
\* the app entry point: run_app() when the session flag is set, else check_login()
ShowsApp(flag) == flag

\* a script run that ends in check_login() with nothing submitted: the login form
LoginPage ==
    /\ page' = "login"
    /\ events' = <<>>
    /\ selected_site_name' = NoneName
    /\ selected_endpoint' = "Site Details"
    /\ api_data' = None
    /\ processed_data' = <<>>
    /\ fieldnames' = <<>>
    /\ downloads' = NoDownloads
    /\ UNCHANGED <<sites_cache, last_reply>>

\* `not selected_site_id`
InvalidSite(selected_site_id) == selected_site_id = NoneId \/ selected_site_id = 0

\* a script run through run_app() in which Logout is not pressed: the site
\* list, the two selectboxes and, when Generate is pressed, the files
\* what the Generate button leaves when it is not pressed, or stops at the
\* site check
NoFiles(generate) ==
    [api_data |-> None, processed_data |-> <<>>, fieldnames |-> <<>>, sent |-> FALSE,
     events |-> IF generate THEN <<Event("error", InvalidSiteMsg)>> ELSE <<>>,
     downloads |-> NoDownloads]

\* the Generate button: nothing when not pressed, st.stop() at an invalid
\* site, else the files
GenerateButton(generate, endpoint, selected_site_id, reply) ==
    IF generate /\ ~InvalidSite(selected_site_id)
    THEN GenerateFiles(endpoint, selected_site_id, reply)
    ELSE NoFiles(generate)

\* the page and the state at the end of run_app
Rendered(sites, name, endpoint, files, sites_reply, reply) ==
    /\ sites_cache' = Cached(sites.value)
    /\ selected_site_name' = name
    /\ selected_endpoint' = endpoint
    /\ page' = "app"
    /\ events' = sites.events \o files.events
    /\ api_data' = files.api_data
    /\ processed_data' = files.processed_data
    /\ fieldnames' = files.fieldnames
    /\ downloads' = files.downloads
    /\ last_reply' = IF files.sent THEN reply
                     ELSE IF sites.sent THEN sites_reply
                     ELSE last_reply

WithSite(sites, name, endpoint, generate, sites_reply, reply) ==
    Rendered(sites, name, endpoint,
             GenerateButton(generate, endpoint, Get(sites.value, name, NoneId), reply),
             sites_reply, reply)

WithSites(sites, site_choice, endpoint, generate, sites_reply, reply) ==
    WithSite(sites, Selectbox(KeysInOrder(sites.value, 1), site_choice),
             endpoint, generate, sites_reply, reply)

RunApp(site_choice, endpoint, generate, sites_reply, reply) ==
    WithSites(get_all_sites(sites_reply), site_choice, endpoint, generate,
              sites_reply, reply)

\* the reply to sites/list is consumed only when the memo is empty
SitesReplyNeeded(replies) == IF sites_cache.cached THEN {NoResponse} ELSE replies

\* ------------------------------------------------------------------ actions
\* The login form is submitted.
SubmitLogin(typed_username, password, sites_reply) ==
    /\ page = "login"
    /\ ~ShowsApp(authenticated)
    /\ LET outcome == LoginOutcome(typed_username, password)
       IN /\ submitted' = [username |-> typed_username, password |-> password,
                           outcome |-> outcome]
          /\ IF outcome = "authenticated"
             THEN /\ authenticated' = TRUE
                  \* st.rerun(): the script runs again with the flag set
                  /\ IF ShowsApp(TRUE)
                     THEN RunApp(NoneName, "Site Details", FALSE, sites_reply, NoResponse)
                     ELSE LoginPage
             ELSE /\ authenticated' = authenticated
                  /\ page' = "login"
                  /\ events' = <<Event("error", InvalidLoginMsg)>>
                  /\ UNCHANGED <<sites_cache, selected_site_name, selected_endpoint,
                                 last_reply, api_data, processed_data, fieldnames,
                                 downloads>>
    /\ UNCHANGED secrets

\* (mutant) the Logout button leaves the flag set
LoggedOutStillSet == TRUE

\* the session flag after the Logout button
LoggedOut == FALSE

\* The Logout button is pressed.
Logout ==
    /\ page = "app"
    /\ IF ShowsApp(authenticated)
       THEN /\ authenticated' = LoggedOut
            \* st.rerun()
            /\ IF ShowsApp(LoggedOut)
               THEN RunApp(selected_site_name, selected_endpoint, FALSE, NoResponse, NoResponse)
               ELSE LoginPage
       ELSE authenticated' = authenticated /\ LoginPage
    /\ UNCHANGED <<secrets, submitted>>

\* A selectbox or a parameter widget of the main application is changed.
Select(site_choice, endpoint, sites_reply) ==
    /\ page = "app"
    /\ site_choice \in Range(KeysInOrder(sites_cache.value, 1))
    /\ IF ShowsApp(authenticated)
       THEN RunApp(site_choice, endpoint, FALSE, sites_reply, NoResponse)
       ELSE LoginPage
    /\ UNCHANGED <<secrets, authenticated, submitted>>

\* "Generate Download Files" is pressed.
Generate(sites_reply, reply) ==
    /\ page = "app"
    /\ IF ShowsApp(authenticated)
       THEN RunApp(selected_site_name, selected_endpoint, TRUE, sites_reply, reply)
       ELSE LoginPage
    /\ UNCHANGED <<secrets, authenticated, submitted>>

\* The administrator edits the secrets: the API key is set or removed.
ChangeApiKey(key) ==
    /\ api_key' = key
    /\ api_key' # api_key
    /\ UNCHANGED <<usernames, passwords, authenticated, sites_cache,
                   selected_site_name, selected_endpoint, page, events, last_reply,
                   submitted, api_data, processed_data, fieldnames, downloads>>

\* ------------------------------------------------------------------- inputs
Names == {Join(w) : w \in NameWords}
Passwords == {"p", "q"}
ApiKeys == {"", "KEY"}

Fragments == {Join(w) : w \in BodyWords}
StatusCodes == {403, 500}

\* the replies that make a call fail
FailureReplies ==
    {NoResponse, NotJsonReply(200)}
        \cup {HttpReply(c, t) : c \in StatusCodes, t \in SeqsUpTo(Fragments, MaxText)}

\* one of each kind of failure
SampleFailures ==
    {NoResponse, NotJsonReply(200), HttpReply(500, <<>>),
     HttpReply(403, <<"Date range", "MAXIMUM">>)}

\* an object from a table of optional members: the members that are not Absent
Absent == [type |-> "absent", val |-> "", items |-> <<>>]
Present(full) == [k \in {k \in DOMAIN full : full[k] # Absent} |-> full[k]]

\* sites/list
SiteObjects ==
    {[name |-> "Alpha", id |-> 7], [name |-> "Alpha", id |-> 0], [name |-> "Beta", id |-> 8]}
SitesJson ==
    {EmptyDict, [sites |-> EmptyDict]}
        \cup {[sites |-> [site |-> list]] : list \in SeqsUpTo(SiteObjects, MaxLen)}
SitesReplies ==
    {NoResponse, NotJsonReply(200), HttpReply(403, <<>>)} \cup {JsonReply(j) : j \in SitesJson}

\* site/{id}/details
UriNames == {Join(w) : w \in UriWords}
UriDicts ==
    {[k \in K |-> Scalar(k)] : K \in {K \in SUBSET UriNames : Cardinality(K) <= MaxUris}}
DetailsObjects ==
    {Present([id |-> i, location |-> l, publicSettings |-> p, uris |-> u,
              location_city |-> c, uri_a |-> a]) :
        i \in {Absent, Scalar("1")},
        l \in {Absent, Scalar("L"), Dict(EmptyDict), Dict([city |-> Scalar("X")])},
        p \in {Absent, Dict([isPublic |-> Scalar("false")])},
        u \in {Absent, Scalar("U")} \cup {Dict(m) : m \in UriDicts},
        c \in {Absent, Scalar("Y")},
        a \in {Absent, Scalar("Z")}}
DetailsJson == {EmptyDict} \cup {[details |-> d] : d \in DetailsObjects}

\* site/{id}/energy, site/{id}/power and the values of a meter
ValueEntries ==
    {[value |-> Scalar("5")],
     [date |-> Scalar("2024-01-01"), value |-> Scalar("5")],
     [date |-> Scalar("2024-01-02"), value |-> PyNone],
     [date |-> Scalar("2024-01-03"), value |-> Scalar("6"), unit |-> Scalar("kWh")],
     [date |-> Scalar("2024-01-04"), value |-> Scalar("7"), comment |-> Scalar("ok")]}
EnergySections ==
    {EmptyDict, [timeUnit |-> Scalar("DAY"), unit |-> Scalar("Wh")]}
        \cup {[values |-> v] : v \in SeqsUpTo(ValueEntries, MaxLen)}
        \cup {[timeUnit |-> Scalar("DAY"), unit |-> Scalar("Wh"), values |-> v] :
                 v \in SeqsUpTo(ValueEntries, MaxLen)}
EnergyJson == {EmptyDict} \cup {[energy |-> e] : e \in EnergySections}
PowerJson == {EmptyDict} \cup {[power |-> e] : e \in EnergySections}

\* equipment/{id}/sensors
SensorObjects ==
    {EmptyDict, [name |-> Scalar("T1")],
     [name |-> Scalar("T2"), measurement |-> Scalar("SensorTemperature"),
      type |-> Scalar("TEMPERATURE")]}
SensorGateways ==
    {EmptyDict}
        \cup {[connectedTo |-> Scalar("GW1"), sensors |-> l] :
                 l \in SeqsUpTo(SensorObjects, MaxInner)}
SensorListJson ==
    {EmptyDict, [SiteSensors |-> EmptyDict]}
        \cup {[SiteSensors |-> [list |-> l]] : l \in SeqsUpTo(SensorGateways, MaxLen)}

\* site/{id}/sensors
Telemetries ==
    {EmptyDict, [date |-> Scalar("2024-01-01")], [temp |-> Scalar("5")],
     [date |-> Scalar("2024-01-02"), temp |-> Scalar("5"), irr |-> Scalar("100")]}
TelemetryGateways ==
    {EmptyDict}
        \cup {[connectedTo |-> Scalar("GW1"), telemetries |-> l] :
                 l \in SeqsUpTo(Telemetries, MaxInner)}
SensorDataJson ==
    {EmptyDict, [siteSensors |-> EmptyDict]}
        \cup {[siteSensors |-> [data |-> l]] : l \in SeqsUpTo(TelemetryGateways, MaxLen)}

\* site/{id}/meters
MeterObjects ==
    {EmptyDict}
        \cup {[meterSerialNumber |-> Scalar("606483640"), model |-> Scalar("RWND"),
               meterType |-> Scalar("Production"), values |-> v] :
                 v \in SeqsUpTo(ValueEntries, MaxInner)}
MetersSections ==
    {EmptyDict}
        \cup {[meters |-> m] : m \in SeqsUpTo(MeterObjects, MaxLen)}
        \cup {[timeUnit |-> Scalar("DAY"), unit |-> Scalar("Wh"), meters |-> m] :
                 m \in SeqsUpTo(MeterObjects, MaxLen)}
MetersJson == {EmptyDict} \cup {[meterEnergyDetails |-> s] : s \in MetersSections}

\* the JSON objects the vendor API may return for an endpoint
EndpointJson(endpoint) ==
    CASE endpoint = "Site Details" -> DetailsJson
      [] endpoint = "Site Energy" -> EnergyJson
      [] endpoint = "Site Power" -> PowerJson
      [] endpoint = "Get Sensor List" -> SensorListJson
      [] endpoint = "Get Sensor Data" -> SensorDataJson
      [] endpoint = "Get Meters Data" -> MetersJson

\* a few of them for each endpoint: no data, and data
SampleJson(endpoint) ==
    CASE endpoint = "Site Details" ->
            {EmptyDict,
             [details |-> [id |-> Scalar("1"), location |-> Dict([city |-> Scalar("X")])]]}
      [] endpoint = "Site Energy" ->
            {[energy |-> [values |-> <<>>]],
             [energy |-> [timeUnit |-> Scalar("DAY"), unit |-> Scalar("Wh"),
                          values |-> <<[date |-> Scalar("2024-01-01"), value |-> Scalar("5")]>>]]}
      [] endpoint = "Site Power" ->
            {[power |-> [values |-> <<>>]],
             [power |-> [values |-> <<[date |-> Scalar("2024-01-01"), value |-> Scalar("5")]>>]]}
      [] endpoint = "Get Sensor List" ->
            {[SiteSensors |-> [list |-> <<[connectedTo |-> Scalar("GW1"), sensors |-> <<>>]>>]],
             [SiteSensors |-> [list |-> <<[connectedTo |-> Scalar("GW1"),
                                           sensors |-> <<[name |-> Scalar("T1")]>>]>>]]}
      [] endpoint = "Get Sensor Data" ->
            {[siteSensors |-> [data |-> <<[connectedTo |-> Scalar("GW1"),
                                           telemetries |-> <<[date |-> Scalar("2024-01-01")]>>]>>]],
             [siteSensors |-> [data |-> <<[connectedTo |-> Scalar("GW1"),
                                           telemetries |-> <<[date |-> Scalar("2024-01-01"),
                                                              temp |-> Scalar("5")]>>]>>]]}
      [] endpoint = "Get Meters Data" ->
            {[meterEnergyDetails |-> [meters |-> <<[model |-> Scalar("RWND")]>>]],
             [meterEnergyDetails |-> [meters |-> <<[model |-> Scalar("RWND"),
                 values |-> <<[date |-> Scalar("2024-01-01"), value |-> Scalar("5")]>>]>>]]}

\* ---------------------------------------------------------------- the session
\* The process has started and the script has run once: the login form.
InitSession ==
    /\ authenticated = FALSE
    /\ sites_cache = NotCached
    /\ selected_site_name = NoneName
    /\ selected_endpoint = "Site Details"
    /\ page = "login"
    /\ events = <<>>
    /\ last_reply = NoResponse
    /\ submitted = [username |-> "", password |-> "", outcome |-> "none"]
    /\ api_data = None
    /\ processed_data = <<>>
    /\ fieldnames = <<>>
    /\ downloads = NoDownloads

Init ==
    /\ usernames = <<"a">>
    /\ passwords = <<"p">>
    /\ api_key \in ApiKeys
    /\ InitSession

Next ==
    \/ \E u \in Names, p \in Passwords, s \in SitesReplyNeeded(SitesReplies) :
           SubmitLogin(u, p, s)
    \/ Logout
    \/ \E n \in Range(SiteNameOrder) \cup {"No sites found"}, e \in Endpoints,
          s \in SitesReplyNeeded(SitesReplies) : Select(n, e, s)
    \/ \E s \in SitesReplyNeeded(SitesReplies),
          r \in SampleFailures \cup {JsonReply(j) : j \in SampleJson(selected_endpoint)} :
           Generate(s, r)
    \/ \E k \in ApiKeys : ChangeApiKey(k)

Spec == Init /\ [][Next]_vars

\* ------------------------------------------------------------ the login form
\* any credentials table: the two lists need not have the same length
InitLogin ==
    /\ usernames \in SeqsUpTo(Names, MaxCreds)
    /\ passwords \in SeqsUpTo(Passwords, MaxCreds)
    /\ api_key = "KEY"
    /\ InitSession

NextLogin ==
    \/ \E u \in Names, p \in Passwords,
          s \in SitesReplyNeeded({NoResponse, JsonReply([sites |-> [site |->
                    <<[name |-> "Alpha", id |-> 7]>>]])}) :
           SubmitLogin(u, p, s)
    \/ Logout

SpecLogin == InitLogin /\ [][NextLogin]_vars

\* ----------------------------------------------------------- Generate alone
\* A session that is logged in, has a site selected and an endpoint chosen;
\* the vendor API answers the next data request with last_reply.
InitGenerate ==
    /\ usernames = <<"a">>
    /\ passwords = <<"p">>
    /\ api_key = "KEY"
    /\ authenticated = TRUE
    /\ sites_cache = Cached([name \in {"Alpha"} |-> 7])
    /\ selected_site_name = "Alpha"
    /\ selected_endpoint \in Endpoints
    /\ page = "app"
    /\ events = <<>>
    /\ last_reply \in FailureReplies \cup {JsonReply(j) : j \in EndpointJson(selected_endpoint)}
    /\ submitted = [username |-> "a", password |-> "p", outcome |-> "authenticated"]
    /\ api_data = None
    /\ processed_data = <<>>
    /\ fieldnames = <<>>
    /\ downloads = NoDownloads

NextGenerate == Generate(NoResponse, last_reply)

SpecGenerate == InitGenerate /\ [][NextGenerate]_vars

\* ================================================================== claims
\* the GETs among the events of a script run
Gets(evs) == {i \in DOMAIN evs : evs[i].kind = "get"}
SitesListGets(evs) == {i \in Gets(evs) : evs[i].text = "sites/list"}

\* ------------------------------------------------------------------------
\* C1: the main application runs only while the session flag is set.  The
\* application page, a GET, fetched data and download buttons are found only
\* in states where authenticated is true; the flag turns true only in a step
\* that is a login submission whose user name (lowercased) is in the table
\* with the submitted password at the same index; the Logout button clears
\* it; and from a state where the flag is clear, a step that sends a GET or
\* shows the application is such a login.
C1SuccessfulLogin ==
    /\ page = "login"
    /\ submitted'.outcome = "authenticated"
    /\ \E i \in DOMAIN usernames \cap DOMAIN passwords :
           /\ usernames[i] = Lower(submitted'.username)
           /\ passwords[i] = submitted'.password

C1GateInvariant ==
    (page = "app" \/ Gets(events) # {} \/ ~api_data.none \/ downloads.offered)
        => authenticated

C1Gate ==
    /\ ~authenticated
    /\ [](C1GateInvariant)
    /\ [][(authenticated' /\ ~authenticated) => C1SuccessfulLogin]_vars
    /\ [][Logout => (~authenticated' /\ page' = "login" /\ Gets(events') = {}
                       /\ ~downloads'.offered)]_vars
    /\ [][(~authenticated /\ (page' = "app" \/ Gets(events') # {} \/ downloads'.offered))
              => C1SuccessfulLogin]_vars

\* C1 witness: the session was logged in, fetched the site list, and is
\* logged out again
C1Witness ==
    /\ ~authenticated
    /\ page = "login"
    /\ sites_cache.cached
    /\ submitted.outcome = "authenticated"

\* ------------------------------------------------------------------------
\* C2 (as stated): whenever the form was last submitted with the user name and
\* the password found at one index i of the two lists, the session is
\* authenticated by that submission.
C2EveryTableEntryLogsIn ==
    \A i \in DOMAIN usernames \cap DOMAIN passwords :
        (/\ submitted.outcome # "none"
         /\ submitted.username = usernames[i]
         /\ submitted.password = passwords[i])
            => submitted.outcome = "authenticated"

\* ------------------------------------------------------------------------
\* C3: a failed login submission (user name not in the table, found at an
\* index beyond the passwords list, or another password at its index) leaves
\* the flag as it was (clear) and shows the one message 'Invalid username or
\* password', whatever the cause.
C3Cause ==
    LET username == Lower(submitted.username)
        found == {i \in DOMAIN usernames : usernames[i] = username}
        first == CHOOSE i \in found : \A j \in found : i <= j
    IN IF submitted.outcome = "none" THEN "nothing submitted"
       ELSE IF found = {} THEN "unknown user"
       ELSE IF first > Len(passwords) THEN "no password"
       ELSE IF passwords[first] # submitted.password THEN "wrong password"
       ELSE "accepted"

C3FailedLoginGeneric ==
    C3Cause \in {"unknown user", "no password", "wrong password"}
        => /\ ~authenticated
           /\ page = "login"
           /\ events = <<Event("error", InvalidLoginMsg)>>

\* C3 witness: a submission failed because the passwords list is too short
C3Witness ==
    /\ C3Cause = "no password"
    /\ events = <<Event("error", InvalidLoginMsg)>>

\* ------------------------------------------------------------------------
\* C7: a Generate action sends at most one GET: exactly one when the selected
\* site is valid and an API key is configured (also when the call fails), and
\* none when the site is invalid or the key is absent.
C7SiteValid ==
    /\ selected_site_name \in DOMAIN sites_cache.value
    /\ sites_cache.value[selected_site_name] \notin {NoneId, 0}

C7OneGetPerGenerate ==
    [][(\E s \in SitesReplyNeeded(SitesReplies),
           r \in SampleFailures \cup {JsonReply(j) : j \in SampleJson(selected_endpoint)} :
            Generate(s, r))
          => /\ Cardinality(Gets(events')) <= 1
             /\ (C7SiteValid /\ api_key # "") => Cardinality(Gets(events')) = 1
             /\ (~C7SiteValid \/ api_key = "") => Gets(events') = {}]_vars

\* C7 witness: a Generate whose call failed: one GET, one log line, one message
C7Witness ==
    /\ page = "app"
    /\ Len(events) = 3
    /\ events[1].kind = "get" /\ events[1].text # "sites/list"
    /\ events[2].kind = "log"
    /\ events[3].kind = "error"

\* ------------------------------------------------------------------------
\* C10: once get_all_sites has returned, no later script run (rerun,
\* Generate, logout and login) sends sites/list again and the memo never
\* changes; when the memo is the placeholder {'No sites found': None} every
\* Generate ends with 'Invalid site selected.' and sends nothing.
C10SitesListOnce ==
    /\ [][(sites_cache.cached /\ api_key' = api_key)
              => (sites_cache' = sites_cache /\ SitesListGets(events') = {})]_vars
    /\ [][(/\ sites_cache = Cached(NoSitesFound)
           /\ \E s \in SitesReplyNeeded(SitesReplies),
                 r \in SampleFailures \cup {JsonReply(j) : j \in SampleJson(selected_endpoint)} :
                  Generate(s, r))
              => events' = <<Event("error", InvalidSiteMsg)>>]_vars

\* C10 witness: the placeholder is memoized, an API key is configured now, and
\* a Generate has just ended with 'Invalid site selected.'
C10Witness ==
    /\ sites_cache = Cached(NoSitesFound)
    /\ api_key # ""
    /\ events = <<Event("error", InvalidSiteMsg)>>

\* ------------------------------------------------- claims about one Generate
\* a Generate action has sent its GET and the page shows its result
Generated == page = "app" /\ Gets(events) # {} /\ SitesListGets(events) = {}

\* the call of that Generate returned the parsed body
CallReturnedData ==
    last_reply.received /\ last_reply.status_code < 400 /\ last_reply.json_ok

Texts(kind) == {events[i].text : i \in {i \in DOMAIN events : events[i].kind = kind}}

\* ------------------------------------------------------------------------
\* C4 (as stated): a failed API call returns no data, is written to the log
\* before its one message, and the message is the date-range one iff a
\* response with status 403 and 'date range' and 'maximum' in its lowercased
\* body was received, the HTTP-error one with the status for every other
\* received 4xx/5xx response, and the could-not-connect one iff no response
\* was received.
C4DateRangeBody ==
    /\ \E i \in DOMAIN last_reply.text : Lower(last_reply.text[i]) = "date range"
    /\ \E i \in DOMAIN last_reply.text : Lower(last_reply.text[i]) = "maximum"

C4FailureClassified ==
    (Generated /\ ~CallReturnedData)
        => /\ api_data.none
           /\ \E i, j \in DOMAIN events :
                  i < j /\ events[i].kind = "log" /\ events[j].kind = "error"
           /\ Cardinality(Texts("error")) = 1
           /\ DateRangeMsg \in Texts("error")
                  <=> (/\ last_reply.received
                       /\ last_reply.status_code = 403
                       /\ C4DateRangeBody)
           /\ (/\ last_reply.received
               /\ last_reply.status_code >= 400
               /\ ~(last_reply.status_code = 403 /\ C4DateRangeBody))
                  => ApiErrorMsg(last_reply.status_code) \in Texts("error")
           /\ NoConnectionMsg \in Texts("error") <=> ~last_reply.received

\* ------------------------------------------------------------------------
\* C5: the downloads are offered only if the call returned data and the
\* flattening gave at least one row; a call that succeeded on a response
\* whose values / sensors / telemetries / meters structure is absent or empty
\* gives no rows and no fields, the 'no data' warning and no download; a call
\* that failed gives neither a download nor the warning.
C5StructureEmpty ==
    LET json == last_reply.json
        Empty(d, key) == key \notin DOMAIN d \/ d[key] = <<>>
    IN CASE selected_endpoint = "Site Details" -> "details" \notin DOMAIN json
         [] selected_endpoint = "Site Energy" ->
                "energy" \notin DOMAIN json \/ Empty(json["energy"], "values")
         [] selected_endpoint = "Site Power" ->
                "power" \notin DOMAIN json \/ Empty(json["power"], "values")
         [] selected_endpoint = "Get Sensor List" ->
                \/ "SiteSensors" \notin DOMAIN json
                \/ Empty(json["SiteSensors"], "list")
                \/ \A g \in DOMAIN json["SiteSensors"]["list"] :
                       Empty(json["SiteSensors"]["list"][g], "sensors")
         [] selected_endpoint = "Get Sensor Data" ->
                \/ "siteSensors" \notin DOMAIN json
                \/ Empty(json["siteSensors"], "data")
                \/ \A g \in DOMAIN json["siteSensors"]["data"] :
                       Empty(json["siteSensors"]["data"][g], "telemetries")
         [] selected_endpoint = "Get Meters Data" ->
                \/ "meterEnergyDetails" \notin DOMAIN json
                \/ Empty(json["meterEnergyDetails"], "meters")
                \/ \A m \in DOMAIN json["meterEnergyDetails"]["meters"] :
                       Empty(json["meterEnergyDetails"]["meters"][m], "values")

C5DownloadsOnlyWithRows ==
    Generated
        => /\ downloads.offered
                  => (CallReturnedData /\ ~api_data.none /\ processed_data # <<>>)
           /\ (CallReturnedData /\ C5StructureEmpty)
                  => /\ processed_data = <<>>
                     /\ fieldnames = <<>>
                     /\ NoDataMsg \in Texts("warning")
                     /\ ~downloads.offered
           /\ ~CallReturnedData
                  => /\ ~downloads.offered
                     /\ Texts("warning") = {}
                     /\ Texts("success") = {}

\* C5 witness: a successful call whose sensors are all empty lists: warning,
\* no download
C5Witness ==
    /\ Generated
    /\ selected_endpoint = "Get Sensor List"
    /\ CallReturnedData
    /\ "SiteSensors" \in DOMAIN last_reply.json
    /\ "list" \in DOMAIN last_reply.json["SiteSensors"]
    /\ Len(last_reply.json["SiteSensors"]["list"]) = 2
    /\ C5StructureEmpty
    /\ NoDataMsg \in Texts("warning")

\* ------------------------------------------------------------------------
\* C6 (as stated): the raw JSON offered for download is the response as the
\* gateway returned it, with every key and value it had.
C6RawIsResponse ==
    (Generated /\ downloads.offered) => downloads.raw_json = last_reply.json

\* ------------------------------------------------------------------------
\* C8 (as stated): every row has only keys of the field list produced with it.
C8RowKeysInFieldList ==
    Generated => \A i \in DOMAIN processed_data :
                     DOMAIN processed_data[i] \subseteq Range(fieldnames)

\* C8 (amended): the rows of Site Details, Get Sensor List and Get Sensor
\* Data have exactly the keys of the field list; a Site Energy / Site Power
\* row has the keys timeUnit and unit and those of its values element, a Get
\* Meters Data row those, the three meter keys and those of its value entry,
\* whether in the field list or not; the CSV has the field list as header and
\* one cell for each field in every record.
C8MeterEntries ==
    UNION {Range(Get(last_reply.json["meterEnergyDetails"]["meters"][m], "values", <<>>)) :
              m \in DOMAIN last_reply.json["meterEnergyDetails"]["meters"]}

C8RowKeys ==
    (Generated /\ processed_data # <<>>)
        => /\ CASE selected_endpoint \in {"Site Details", "Get Sensor List", "Get Sensor Data"} ->
                      \A i \in DOMAIN processed_data :
                          DOMAIN processed_data[i] = Range(fieldnames)
                [] selected_endpoint \in {"Site Energy", "Site Power"} ->
                      LET url == IF selected_endpoint = "Site Energy" THEN "energy" ELSE "power"
                          values == last_reply.json[url]["values"]
                      IN /\ Len(processed_data) = Len(values)
                         /\ \A i \in DOMAIN processed_data :
                                DOMAIN processed_data[i] =
                                    {"timeUnit", "unit"} \cup DOMAIN values[i]
                [] selected_endpoint = "Get Meters Data" ->
                      \A i \in DOMAIN processed_data :
                          \E v \in C8MeterEntries :
                              DOMAIN processed_data[i] =
                                  {"timeUnit", "unit", "meterSerialNumber", "model",
                                   "meterType"} \cup DOMAIN v
           /\ downloads.offered
           /\ Len(downloads.csv) = 1 + Len(processed_data)
           /\ downloads.csv[1] = fieldnames
           /\ \A r \in DOMAIN downloads.csv : Len(downloads.csv[r]) = Len(fieldnames)

\* C8 witness: a Site Energy row with a key that is not in the field list
C8Witness ==
    /\ Generated
    /\ selected_endpoint = "Site Energy"
    /\ \E i \in DOMAIN processed_data : "comment" \in DOMAIN processed_data[i]
    /\ downloads.offered

\* ------------------------------------------------------------------------
\* C9: Site Details of a response with a details object.
C9Case ==
    /\ Generated
    /\ selected_endpoint = "Site Details"
    /\ CallReturnedData
    /\ "details" \in DOMAIN last_reply.json

\* the keys of the sub-objects that are spread, and the key a member gets
C9Spread ==
    {k \in {"location", "publicSettings", "uris"} \cap DOMAIN last_reply.json["details"] :
        last_reply.json["details"][k].type = "dict"}

C9Prefixed(k, m) ==
    CASE k = "location" -> "location_" \o m
      [] k = "publicSettings" -> "public_" \o m
      [] k = "uris" -> "uri_" \o ReplaceSpace(Lower(m))

C9MemberKeys ==
    UNION {{C9Prefixed(k, m) : m \in DOMAIN last_reply.json["details"][k].items} :
              k \in C9Spread}

\* flattening once more the object that was flattened in place changes nothing
C9Idempotent ==
    /\ FlattenSiteDetails(api_data).processed_data = processed_data
    /\ FlattenSiteDetails(api_data).fieldnames = fieldnames
    /\ FlattenSiteDetails(Some(last_reply.json)).processed_data = processed_data

\* C9 (as stated): one row; the field list is the sorted key set of the row;
\* each member of a dict-valued location / publicSettings / uris is in the row
\* under its prefixed key; every other key of details is in the row with its
\* value; flattening again gives the same row and field list.
C9FlatDetails ==
    C9Case
        => LET details == last_reply.json["details"]
               row == processed_data[1]
           IN /\ Len(processed_data) = 1
              /\ fieldnames = Sorted(DOMAIN row)
              /\ \A k \in C9Spread :
                     /\ k \notin DOMAIN row
                     /\ \A m \in DOMAIN details[k].items :
                            /\ C9Prefixed(k, m) \in DOMAIN row
                            /\ row[C9Prefixed(k, m)] = details[k].items[m]
              /\ \A k \in DOMAIN details \ C9Spread :
                     k \in DOMAIN row /\ row[k] = details[k]
              /\ C9Idempotent

\* C9 (amended): as stated, except where keys collide: a key of details equal
\* to the prefixed key of a member holds the member's value, and of several
\* members of uris with the same prefixed key one is kept; every key of
\* details that is no prefixed member key is unchanged, and the row has no
\* other keys.
C9FlatDetailsUpToCollisions ==
    C9Case
        => LET details == last_reply.json["details"]
               row == processed_data[1]
           IN /\ Len(processed_data) = 1
              /\ fieldnames = Sorted(DOMAIN row)
              /\ Len(fieldnames) = Cardinality(DOMAIN row)
              /\ DOMAIN row = (DOMAIN details \ C9Spread) \cup C9MemberKeys
              /\ \A k \in C9Spread :
                     \A m \in DOMAIN details[k].items :
                         \E n \in DOMAIN details[k].items :
                             /\ C9Prefixed(k, n) = C9Prefixed(k, m)
                             /\ row[C9Prefixed(k, m)] = details[k].items[n]
              /\ \A k \in DOMAIN details \ C9Spread :
                     k \notin C9MemberKeys => row[k] = details[k]
              /\ C9Idempotent

\* C9 witness: location and uris are spread, and a key of details collides
\* with a member of location
C9Witness ==
    /\ C9Case
    /\ C9Spread = {"location", "uris"}
    /\ "location_city" \in DOMAIN last_reply.json["details"]
    /\ "city" \in DOMAIN last_reply.json["details"]["location"].items
    /\ processed_data[1]["location_city"] = Scalar("X")
    /\ downloads.offered

====
